---- MODULE Spec2Model ----
(***************************************************************************)
(* The chat session store of the repository, in its two implementations:   *)
(*   "hook"    - the React hook useChatGPT   (src/examples/react/README.md) *)
(*   "service" - the Angular ChatService     (src/examples/scala/build.sbt) *)
(* Both keep a list of sessions, an active session object, a loading flag  *)
(* and an error field, talk to a remote completion endpoint and persist    *)
(* the session list in one localStorage slot.                              *)
(*                                                                         *)
(* Strings are sequences of chunks (a chunk is a TLA+ string), so that a   *)
(* template literal is a concatenation and String.includes is chunk        *)
(* membership.  An absent session is Null, an absent id / controller is 0, *)
(* an absent error is the empty sequence, an absent token count is -1.     *)
(* Titles and timestamps of sessions and messages are not modelled.        *)
(*                                                                         *)
(* React state: a handler is called with the closure of the latest render, *)
(* and its queued updates are committed before the next handler runs.  A   *)
(* pending sendMessage call keeps the closure of the render it was called  *)
(* from (its updatedSession and its currentSession).                       *)
(*                                                                         *)
(* The module also holds the two todo-list components and the two          *)
(* user-profile components of the basic examples; each has its own         *)
(* specification, in which the store stays as constructed.                 *)
(***************************************************************************)
EXTENDS Integers, Sequences, FiniteSets, TLC

\* Bounds of the model.
MaxSessions == 2
MaxCalls == 2
MaxOps == 2
MaxEdits == 3

\* sessions.slice(0, 10) in saveSessionsToStorage
KeepRecent == 10

Null == [null |-> TRUE]
NoId == 0
NoError == <<>>
NoTokens == -1

Impls == {"hook", "service"}

\* ------------------------------------------------------------------
\* Inputs
\* ------------------------------------------------------------------

\* Message texts a caller may pass: " " and "hi".
Contents == {<<" ">>, <<"hi">>}

\* An id that no session ever has.
UnknownSid == MaxSessions + 1

\* The id under which a session is already stored when the store starts.
StoredSid == MaxSessions + 2

\* The session ids a caller passes: the id of a session of the list, the id
\* of the active session, or an id that is neither.
SessionIdArgs(ss, cur) ==
  {ss[i].id : i \in DOMAIN ss}
    \cup (IF cur = [null |-> TRUE] THEN {} ELSE {cur.id})
    \cup {UnknownSid}

\* Outcomes of the remote call.  kind: "ok" (2xx with a body), "malformed"
\* (2xx whose body has no choices array), "http" (non-2xx), "network"
\* (no response).  body is the error.message of a non-2xx body, <<>> if the
\* body carries none.
Resp(kind, status, content, tokens, body) ==
  [kind |-> kind, status |-> status, content |-> content, tokens |-> tokens, body |-> body]

Responses ==
  { Resp("ok", 200, <<"reply">>, 42, <<>>),
    Resp("malformed", 200, <<>>, NoTokens, <<>>),
    Resp("http", 429, <<>>, NoTokens, <<>>),
    Resp("network", 0, <<>>, NoTokens, <<>>) }

\* ------------------------------------------------------------------
\* Data
\* ------------------------------------------------------------------

Session(id, messages) == [id |-> id, messages |-> messages]

Message(id, role, content, tokens) ==
  [id |-> id, role |-> role, content |-> content, tokens |-> tokens]

\* generateId: a value no other call of generateId returns.  Message ids
\* are named after the call and the part of the exchange they belong to.
generateId(rid, part) == <<rid, part>>

\* Array.prototype.find on the session list: the first session with the id.
Find(ss, id) ==
  IF \E i \in DOMAIN ss : ss[i].id = id
  THEN ss[CHOOSE i \in DOMAIN ss : ss[i].id = id /\ \A j \in 1..(i-1) : ss[j].id # id]
  ELSE Null

HasId(ss, id) == \E i \in DOMAIN ss : ss[i].id = id

IdOf(s) == IF s = Null THEN NoId ELSE s.id

\* prev.map(s => s.id === session.id ? session : s)
ReplaceById(ss, session) ==
  [i \in DOMAIN ss |-> IF ss[i].id = session.id THEN session ELSE ss[i]]

\* prev.filter(s => s.id !== sessionId)
RemoveById(ss, sessionId) == SelectSeq(ss, LAMBDA s : s.id # sessionId)

\* sessions.map(s => s.id === sessionId ? {...s, messages: []} : s)
ClearById(ss, sessionId) ==
  [i \in DOMAIN ss |-> IF ss[i].id = sessionId THEN Session(ss[i].id, <<>>) ELSE ss[i]]

\* sessions.map(s => s.id === sessionId ? {...s, messages: [...s.messages, message]} : s)
AppendById(ss, sessionId, message) ==
  [i \in DOMAIN ss |->
     IF ss[i].id = sessionId THEN Session(ss[i].id, Append(ss[i].messages, message)) ELSE ss[i]]

\* messages.map(msg => ({ role: msg.role, content: msg.content }))
ApiMessages(messages) ==
  [i \in DOMAIN messages |-> [role |-> messages[i].role, content |-> messages[i].content]]

\* sessions.slice(0, n)
Slice(ss, n) == SubSeq(ss, 1, IF Len(ss) < n THEN Len(ss) ELSE n)

\* String.prototype.includes, on chunked strings
Includes(str, needle) == \E i \in DOMAIN str : str[i] = needle

\* ------------------------------------------------------------------
\* Errors
\* ------------------------------------------------------------------

Err(name, message) == [name |-> name, message |-> message]

StatusDigits(status) ==
  CASE status = 401 -> "401"
    [] status = 429 -> "429"
    [] status = 500 -> "500"
    [] OTHER -> "0"

StatusText(status) ==
  CASE status = 401 -> "Unauthorized"
    [] status = 429 -> "Too Many Requests"
    [] status = 500 -> "Internal Server Error"
    [] OTHER -> ""

AbortError == Err("AbortError", <<"The operation was aborted">>)

\* fetch rejects with a TypeError when there is no connection
FetchTypeError == Err("TypeError", <<"Failed to ", "fetch">>)

\* data.choices[0] / response.choices[0] on a body without choices
ChoicesTypeError == Err("TypeError", <<"Cannot read properties of undefined">>)

\* new Error(errorData.error?.message || `HTTP ${response.status}: ${response.statusText}`)
HttpError(status, body) ==
  Err("Error", IF body # <<>> THEN body
               ELSE <<"HTTP ", StatusDigits(status), ": ", StatusText(status)>>)

\* useChatGPT.handleApiError
handleApiError(err) ==
  IF Includes(err.message, "API key")
    THEN <<"API key invalida o no configurada">>
  ELSE IF Includes(err.message, "429")
    THEN <<"Limite de rate excedido. Intenta nuevamente en unos momentos">>
  ELSE IF Includes(err.message, "insufficient_quota")
    THEN <<"Cuota de API agotada. Verifica tu billing en OpenAI">>
  ELSE IF err.name = "TypeError" /\ Includes(err.message, "fetch")
    THEN <<"Error de conexion. Verifica tu conexion a internet">>
  ELSE IF err.message # <<>> THEN err.message
  ELSE <<"Error desconocido al comunicarse con la API">>

\* The HttpErrorResponse (or TypeError) that reaches catchError in the service.
\* body: error.error.error.message, message: error.message
ServiceErr(resp) ==
  IF resp.kind = "malformed"
    THEN [status |-> -1, body |-> <<>>, message |-> ChoicesTypeError.message]
  ELSE [status |-> resp.status, body |-> resp.body,
        message |-> <<"Http failure response: ", StatusDigits(resp.status)>>]

\* ChatService.handleError
handleError(e) ==
  IF e.body # <<>> THEN e.body
  ELSE IF e.status = 401 THEN <<"API key invalida o expirada">>
  ELSE IF e.status = 429
    THEN <<"Limite de rate excedido. Intenta nuevamente en unos momentos">>
  ELSE IF e.status = 0
    THEN <<"Error de conexion. Verifica tu conexion a internet">>
  ELSE IF e.message # <<>> THEN e.message
  ELSE <<"Error desconocido">>

\* response.choices[0]?.message?.content || 'No response'
ReplyContent(resp) == IF resp.content # <<>> THEN resp.content ELSE <<"No response">>

\* ------------------------------------------------------------------
\* Storage
\* ------------------------------------------------------------------

\* The value of the 'chat-sessions' slot: absent, text that is not the JSON
\* of a session array, or the JSON of a session array.
Missing == [kind |-> "missing"]
Corrupt == [kind |-> "corrupt"]
Json(ss) == [kind |-> "json", value |-> ss]

\* JSON.stringify(sessions): a message without a token count has no tokens key
StringifyMessage(m) ==
  IF m.tokens = NoTokens
  THEN [id |-> m.id, role |-> m.role, content |-> m.content]
  ELSE [id |-> m.id, role |-> m.role, content |-> m.content, tokens |-> m.tokens]

StringifySession(s) ==
  [id |-> s.id, messages |-> [i \in DOMAIN s.messages |-> StringifyMessage(s.messages[i])]]

Stringify(ss) == Json([i \in DOMAIN ss |-> StringifySession(ss[i])])

\* JSON.parse(stored).map(session => ({...session, messages: session.messages.map(...)}))
ParseMessage(j) ==
  Message(j.id, j.role, j.content, IF "tokens" \in DOMAIN j THEN j.tokens ELSE NoTokens)

ParseSession(j) ==
  Session(j.id, [i \in DOMAIN j.messages |-> ParseMessage(j.messages[i])])

Parse(stored) == [i \in DOMAIN stored.value |-> ParseSession(stored.value[i])]

\* JSON.stringify(session, null, 2): the JSON text of one session object
ExportJson(s) == [kind |-> "object", value |-> StringifySession(s)]

\* The empty text ''
EmptyText == [kind |-> "empty"]

\* if (stored): the slot holds a text that is not empty
HasText(stored) == stored.kind \notin {"missing", "empty"}

\* JSON.parse(stored).map(...) throws: the text is not JSON, or its value is
\* not an array of sessions with message arrays (an object has no map)
ParseThrows(stored) == stored.kind \in {"corrupt", "object"}

StoredSession ==
  Session(StoredSid, << Message(generateId(0, "user"), "user", <<"old">>, NoTokens),
                        Message(generateId(0, "assistant"), "assistant", <<"reply">>, 42) >>)

InitialStorage == { Missing, Corrupt, Stringify(<<StoredSession>>) }

\* Outcome of one localStorage.setItem: done, or QuotaExceededError thrown
WriteOutcomes == {"ok", "quota"}

VARIABLES
  impl,               \* which set of examples this is: "hook" the React ones, "service" the Angular ones
  phase,              \* "init" before the stored sessions are loaded, then "ready"
  sessions,           \* sessions / _sessions.value
  currentSession,     \* currentSession / _currentSession.value
  isLoading,          \* isLoading / _isLoading.value
  error,              \* error / _error.value
  calls,              \* the sendMessage calls made so far, by call number
  abortControllerRef, \* hook: the call whose AbortController is in the ref
  storage,            \* the localStorage slot 'chat-sessions'
  saveTimer,          \* hook: the debounce timer of the auto-save effect is armed
  nextSid,            \* the next session id generateId gives out
  ops,                \* the number of operations the caller has invoked
  lastOp              \* the step that produced this state: its name and arguments

\* The todo-list component (TodoList / TodoListComponent).
VARIABLES
  todos,              \* todos / todosSubject.value
  filter,             \* filter / currentFilter
  editingTodo,        \* editingTodo
  filteredTodos,      \* the list the view renders: the memo / the last value of filteredTodos$
  nextTodoId          \* the next todo id generateId gives out

\* The user-profile component (UserProfile / UserProfileComponent).
VARIABLES
  user,               \* the user shown in view mode: initialUser / this.user
  formData,           \* formData / profileForm.value
  isEditing,          \* isEditing
  errors,             \* React: the fields the last validation rejected
  userUpdated         \* the users given to onUserUpdated / userUpdated.emit, in order

store == << impl, phase, sessions, currentSession, isLoading, error, calls,
            abortControllerRef, storage, saveTimer, nextSid >>

todoList == << todos, filter, editingTodo, filteredTodos, nextTodoId >>

userProfile == << user, formData, isEditing, errors, userUpdated >>

components == << todoList, userProfile >>

vars == << store, ops, lastOp, components >>

Op(name, id, content) == [name |-> name, id |-> id, content |-> content]

\* The auto-save effect of the hook: it runs when the sessions array is a new
\* array; its cleanup clears the timer and a non-empty list arms it again.
Debounce(ss) == Len(ss) > 0

\* useState / field initialisers of the todo list, before its sample data.
TodoListConstructed ==
  /\ todos = <<>>
  /\ filter = "all"
  /\ editingTodo = Null
  /\ filteredTodos = <<>>
  /\ nextTodoId = 1

\* The default user of UserProfileComponent.
EmptyUser == [name |-> <<>>, email |-> <<>>, age |-> 0, department |-> ""]

\* useState / field initialisers of the user profile.
UserProfileConstructed ==
  /\ user = EmptyUser
  /\ formData = EmptyUser
  /\ isEditing = FALSE
  /\ errors = {}
  /\ userUpdated = <<>>

\* The store after construction, the storage slot holding one of the given values.
StoreWith(stored) ==
  /\ impl \in Impls
  /\ phase = "init"
  /\ sessions = <<>>
  /\ currentSession = Null
  /\ isLoading = FALSE
  /\ error = NoError
  /\ calls = <<>>
  /\ abortControllerRef = NoId
  /\ storage \in stored
  /\ saveTimer = FALSE
  /\ nextSid = 1
  /\ ops = 0
  /\ lastOp = Op("init", NoId, <<>>)

\* The state after construction, the storage slot holding one of the given values.
InitWith(stored) == StoreWith(stored) /\ TodoListConstructed /\ UserProfileConstructed

Init == InitWith(InitialStorage)


\* ------------------------------------------------------------------
\* sendMessage calls
\* ------------------------------------------------------------------

Pending == [kind |-> "pending"]
ReturnedNull == [kind |-> "null"]
Returned(m) == [kind |-> "message", message |-> m]

\* One sendMessage call: the id of its target session, the user message it
\* made, what it keeps in its closure (hook: updatedSession and the id of
\* currentSession), the messages of its request body, where it is suspended
\* ("fetch": awaiting the response, "json": awaiting the body of a 2xx,
\* "errjson": awaiting the body of a non-2xx, "settled"), whether its signal
\* was aborted, whether a later call was made while it was unsettled, the
\* response received and what the call returned.
Call(sid, userMessage, updated, curId, payload) ==
  [sid |-> sid, userMessage |-> userMessage, updated |-> updated, curId |-> curId,
   payload |-> payload, state |-> "fetch", aborted |-> FALSE, superseded |-> FALSE,
   resp |-> Resp("none", 0, <<>>, NoTokens, <<>>), result |-> Pending]

Settle(call, result) == [call EXCEPT !.state = "settled", !.result = result]

\* A request that was issued, not cancelled and not yet settled.
InFlight(call) == call.state # "settled" /\ ~call.aborted

Store(ss, cur, loading, err) ==
  [sessions |-> ss, currentSession |-> cur, isLoading |-> loading, error |-> err]

\* ------------------------------------------------------------------
\* The hook: useChatGPT
\* ------------------------------------------------------------------

\* sendMessage, after the awaits succeeded: the assistant message is added to
\* the call's updatedSession, which replaces the session of that id.
Hook_onResponse(st, call, rid, resp) ==
  LET assistantMessage ==
        Message(generateId(rid, "assistant"), "assistant", ReplyContent(resp), resp.tokens)
      finalSession ==
        Session(call.updated.id, Append(call.updated.messages, assistantMessage))
  IN [st |-> Store(ReplaceById(st.sessions, finalSession),
                   IF call.curId = finalSession.id THEN finalSession ELSE st.currentSession,
                   FALSE, st.error),
      result |-> Returned(assistantMessage)]

\* Hook_onError with a cancellation that returns before the loading flag is cleared.
Hook_onError_AbortKeepsLoading(st, call, rid, err) ==
  IF err.name = "AbortError"
  THEN [st |-> st, result |-> ReturnedNull]
  ELSE
    LET errorMessage == handleApiError(err)
        errorResponseMessage ==
          Message(generateId(rid, "assistant"), "assistant",
                  <<"Error: ">> \o errorMessage, NoTokens)
        errorSession ==
          Session(call.updated.id, Append(call.updated.messages, errorResponseMessage))
    IN [st |-> Store(ReplaceById(st.sessions, errorSession),
                     IF call.curId = errorSession.id THEN errorSession ELSE st.currentSession,
                     FALSE, errorMessage),
        result |-> Returned(errorResponseMessage)]

\* Hook_onError with a failure that is not recorded in the error field.
Hook_onError_ErrorNotRecorded(st, call, rid, err) ==
  IF err.name = "AbortError"
  THEN [st |-> Store(st.sessions, st.currentSession, FALSE, st.error),
        result |-> ReturnedNull]
  ELSE
    LET errorMessage == handleApiError(err)
        errorResponseMessage ==
          Message(generateId(rid, "assistant"), "assistant",
                  <<"Error: ">> \o errorMessage, NoTokens)
        errorSession ==
          Session(call.updated.id, Append(call.updated.messages, errorResponseMessage))
    IN [st |-> Store(ReplaceById(st.sessions, errorSession),
                     IF call.curId = errorSession.id THEN errorSession ELSE st.currentSession,
                     FALSE, st.error),
        result |-> Returned(errorResponseMessage)]

\* sendMessage, catch (err)
Hook_onError(st, call, rid, err) ==
  IF err.name = "AbortError"
  THEN [st |-> Store(st.sessions, st.currentSession, FALSE, st.error),
        result |-> ReturnedNull]
  ELSE
    LET errorMessage == handleApiError(err)
        errorResponseMessage ==
          Message(generateId(rid, "assistant"), "assistant",
                  <<"Error: ">> \o errorMessage, NoTokens)
        errorSession ==
          Session(call.updated.id, Append(call.updated.messages, errorResponseMessage))
    IN [st |-> Store(ReplaceById(st.sessions, errorSession),
                     IF call.curId = errorSession.id THEN errorSession ELSE st.currentSession,
                     FALSE, errorMessage),
        result |-> Returned(errorResponseMessage)]

\* What an aborted call does when its pending await rejects: fetch and
\* response.json() reject with the AbortError; in the non-2xx branch the
\* rejection of response.json() is replaced by {} and the HTTP error is thrown.
Hook_onAbort(st, call, rid) ==
  IF call.state = "errjson"
  THEN Hook_onError(st, call, rid, HttpError(call.resp.status, <<>>))
  ELSE Hook_onError(st, call, rid, AbortError)

\* Hook_createNewSession that puts the new session at the end of the list.
Hook_createNewSession_AtEnd ==
  /\ impl = "hook" /\ phase = "ready" /\ ops < MaxOps
  /\ nextSid <= MaxSessions
  /\ LET session == Session(nextSid, <<>>)
     IN /\ sessions' = sessions \o <<session>>
        /\ currentSession' = session
  /\ saveTimer' = Debounce(sessions')
  /\ nextSid' = nextSid + 1
  /\ ops' = ops + 1
  /\ lastOp' = Op("createNewSession", nextSid, <<>>)
  /\ UNCHANGED << components, impl, phase, isLoading, error, calls, abortControllerRef, storage >>

\* useChatGPT.createNewSession
Hook_createNewSession ==
  /\ impl = "hook" /\ phase = "ready" /\ ops < MaxOps
  /\ nextSid <= MaxSessions
  /\ LET session == Session(nextSid, <<>>)
     IN /\ sessions' = <<session>> \o sessions
        /\ currentSession' = session
  /\ saveTimer' = Debounce(sessions')
  /\ nextSid' = nextSid + 1
  /\ ops' = ops + 1
  /\ lastOp' = Op("createNewSession", nextSid, <<>>)
  /\ UNCHANGED << components, impl, phase, isLoading, error, calls, abortControllerRef, storage >>

\* useChatGPT.sendMessage, up to the await of fetch, followed by the
\* continuation of the call it aborted (which runs before anything else).
Hook_sendMessage(content, sessionId) ==
  /\ impl = "hook" /\ phase = "ready" /\ ops < MaxOps
  /\ Len(calls) < MaxCalls
  /\ LET rid == Len(calls) + 1
         prevRid == abortControllerRef
         abortPrev == prevRid # NoId /\ calls[prevRid].state # "settled"
         found == IF sessionId # NoId THEN Find(sessions, sessionId) ELSE currentSession
         create == found = Null
         newSession == Session(nextSid, <<>>)
         targetSession == IF create THEN newSession ELSE found
         sessions1 == IF create THEN <<newSession>> \o sessions ELSE sessions
         current1 == IF create THEN newSession ELSE currentSession
         userMessage == Message(generateId(rid, "user"), "user", content, NoTokens)
         updatedSession ==
           Session(targetSession.id, Append(targetSession.messages, userMessage))
         sessions2 == ReplaceById(sessions1, updatedSession)
         current2 == IF IdOf(currentSession) = updatedSession.id
                     THEN updatedSession ELSE current1
         st1 == Store(sessions2, current2, TRUE, NoError)
         apiMessages == ApiMessages(updatedSession.messages)
         call == Call(updatedSession.id, userMessage, updatedSession,
                      IdOf(currentSession), apiMessages)
         aborted == IF abortPrev
                    THEN Hook_onAbort(st1, calls[prevRid], prevRid)
                    ELSE [st |-> st1, result |-> Pending]
         calls1 == IF abortPrev
                   THEN [calls EXCEPT ![prevRid] =
                           Settle([@ EXCEPT !.aborted = TRUE, !.superseded = TRUE],
                                  aborted.result)]
                   ELSE calls
     IN /\ create => nextSid <= MaxSessions
        /\ sessions' = aborted.st.sessions
        /\ currentSession' = aborted.st.currentSession
        /\ isLoading' = aborted.st.isLoading
        /\ error' = aborted.st.error
        /\ calls' = Append(calls1, call)
        /\ abortControllerRef' = rid
        /\ nextSid' = IF create THEN nextSid + 1 ELSE nextSid
        /\ saveTimer' = Debounce(sessions')
        /\ ops' = ops + 1
        /\ lastOp' = Op("sendMessage", sessionId, content)
  /\ UNCHANGED << components, impl, phase, storage >>

\* What fetch resolves with for a 2xx: the status line, the body still to come.
Headers(resp) == Resp("headers", resp.status, <<>>, NoTokens, <<>>)

\* The fetch of a call settles.  It rejects without a response, which is
\* caught at once, or resolves with the headers of a response, whose body
\* the call then awaits: response.json() of a 2xx ("json") or
\* response.json().catch of a non-2xx ("errjson").
Hook_fetchSettles(rid, resp) ==
  /\ impl = "hook"
  /\ rid \in DOMAIN calls
  /\ calls[rid].state = "fetch"
  /\ IF resp.kind = "network"
     THEN LET r == Hook_onError(Store(sessions, currentSession, isLoading, error),
                                calls[rid], rid, FetchTypeError)
          IN /\ sessions' = r.st.sessions
             /\ currentSession' = r.st.currentSession
             /\ isLoading' = r.st.isLoading
             /\ error' = r.st.error
             /\ calls' = [calls EXCEPT ![rid] = Settle([@ EXCEPT !.resp = resp], r.result)]
             /\ saveTimer' = Debounce(sessions')
     ELSE /\ calls' = [calls EXCEPT ![rid] =
                         IF resp.kind = "http"
                         THEN [@ EXCEPT !.resp = resp, !.state = "errjson"]
                         ELSE [@ EXCEPT !.resp = Headers(resp), !.state = "json"]]
          /\ UNCHANGED << sessions, currentSession, isLoading, error, saveTimer >>
  /\ UNCHANGED ops
  /\ lastOp' = Op("fetchSettles", rid, <<>>)
  /\ UNCHANGED << components, impl, phase, abortControllerRef, storage, nextSid >>

\* The body of a 2xx response has been read (it is the given response): the
\* assistant message is built from it, or reading data.choices[0] throws and
\* the error is caught.
Hook_bodySettles(rid, resp) ==
  /\ impl = "hook"
  /\ rid \in DOMAIN calls
  /\ calls[rid].state = "json"
  /\ resp.kind \in {"ok", "malformed"} /\ Headers(resp) = calls[rid].resp
  /\ LET call == calls[rid]
         st == Store(sessions, currentSession, isLoading, error)
         r == IF resp.kind = "malformed"
              THEN Hook_onError(st, call, rid, ChoicesTypeError)
              ELSE Hook_onResponse(st, call, rid, resp)
     IN /\ sessions' = r.st.sessions
        /\ currentSession' = r.st.currentSession
        /\ isLoading' = r.st.isLoading
        /\ error' = r.st.error
        /\ calls' = [calls EXCEPT ![rid] = Settle([@ EXCEPT !.resp = resp], r.result)]
        /\ saveTimer' = Debounce(sessions')
  /\ UNCHANGED ops
  /\ lastOp' = Op("bodySettles", rid, <<>>)
  /\ UNCHANGED << components, impl, phase, abortControllerRef, storage, nextSid >>

\* The body of a non-2xx response has been read: the error is thrown and caught.
Hook_errorBodySettles(rid) ==
  /\ impl = "hook"
  /\ rid \in DOMAIN calls
  /\ calls[rid].state = "errjson"
  /\ LET call == calls[rid]
         r == Hook_onError(Store(sessions, currentSession, isLoading, error), call, rid,
                           HttpError(call.resp.status, call.resp.body))
     IN /\ sessions' = r.st.sessions
        /\ currentSession' = r.st.currentSession
        /\ isLoading' = r.st.isLoading
        /\ error' = r.st.error
        /\ calls' = [calls EXCEPT ![rid] = Settle(@, r.result)]
        /\ saveTimer' = Debounce(sessions')
  /\ UNCHANGED ops
  /\ lastOp' = Op("errorBodySettles", rid, <<>>)
  /\ UNCHANGED << components, impl, phase, abortControllerRef, storage, nextSid >>

\* useChatGPT.selectSession
Hook_selectSession(sessionId) ==
  /\ impl = "hook" /\ phase = "ready" /\ ops < MaxOps
  /\ LET session == Find(sessions, sessionId)
     IN IF session # Null
        THEN currentSession' = session /\ error' = NoError
        ELSE UNCHANGED << currentSession, error >>
  /\ ops' = ops + 1
  /\ lastOp' = Op("selectSession", sessionId, <<>>)
  /\ UNCHANGED << components, impl, phase, sessions, isLoading, calls, abortControllerRef,
                  storage, saveTimer, nextSid >>

\* Hook_deleteSession that takes the new active session from the list as it
\* was before the removal.
Hook_deleteSession_FirstOfOld(sessionId) ==
  /\ impl = "hook" /\ phase = "ready" /\ ops < MaxOps
  /\ sessions' = RemoveById(sessions, sessionId)
  /\ currentSession' =
       IF IdOf(currentSession) = sessionId
       THEN (IF Len(sessions) > 0 THEN sessions[1] ELSE Null)
       ELSE currentSession
  /\ saveTimer' = Debounce(sessions')
  /\ ops' = ops + 1
  /\ lastOp' = Op("deleteSession", sessionId, <<>>)
  /\ UNCHANGED << components, impl, phase, isLoading, error, calls, abortControllerRef,
                  storage, nextSid >>

\* useChatGPT.deleteSession
Hook_deleteSession(sessionId) ==
  /\ impl = "hook" /\ phase = "ready" /\ ops < MaxOps
  /\ sessions' = RemoveById(sessions, sessionId)
  /\ currentSession' =
       IF IdOf(currentSession) = sessionId
       THEN (IF Len(sessions') > 0 THEN sessions'[1] ELSE Null)
       ELSE currentSession
  /\ saveTimer' = Debounce(sessions')
  /\ ops' = ops + 1
  /\ lastOp' = Op("deleteSession", sessionId, <<>>)
  /\ UNCHANGED << components, impl, phase, isLoading, error, calls, abortControllerRef,
                  storage, nextSid >>

\* Hook_clearSession that empties every session of the list.
Hook_clearSession_EverySession(sessionId) ==
  /\ impl = "hook" /\ phase = "ready" /\ ops < MaxOps
  /\ sessions' = [i \in DOMAIN sessions |-> Session(sessions[i].id, <<>>)]
  /\ currentSession' =
       IF IdOf(currentSession) = sessionId
       THEN Session(currentSession.id, <<>>)
       ELSE currentSession
  /\ error' = NoError
  /\ saveTimer' = Debounce(sessions')
  /\ ops' = ops + 1
  /\ lastOp' = Op("clearSession", sessionId, <<>>)
  /\ UNCHANGED << components, impl, phase, isLoading, calls, abortControllerRef, storage, nextSid >>

\* useChatGPT.clearSession
Hook_clearSession(sessionId) ==
  /\ impl = "hook" /\ phase = "ready" /\ ops < MaxOps
  /\ sessions' = ClearById(sessions, sessionId)
  /\ currentSession' =
       IF IdOf(currentSession) = sessionId
       THEN Session(currentSession.id, <<>>)
       ELSE currentSession
  /\ error' = NoError
  /\ saveTimer' = Debounce(sessions')
  /\ ops' = ops + 1
  /\ lastOp' = Op("clearSession", sessionId, <<>>)
  /\ UNCHANGED << components, impl, phase, isLoading, calls, abortControllerRef, storage, nextSid >>

\* Hook_loadSessionsFromStorage without the catch: the exception of a stored
\* text that cannot be parsed and mapped leaves the mount effect.
Hook_loadSessionsFromStorage_NoCatch ==
  /\ impl = "hook" /\ phase = "init"
  /\ CASE ~HasText(storage) ->
            /\ phase' = "ready"
            /\ UNCHANGED << sessions, currentSession, saveTimer >>
       [] ParseThrows(storage) ->
            /\ phase' = "crashed"
            /\ UNCHANGED << sessions, currentSession, saveTimer >>
       [] storage.kind = "json" ->
            /\ phase' = "ready"
            /\ sessions' = Parse(storage)
            /\ currentSession' = IF Len(sessions') > 0 THEN sessions'[1] ELSE currentSession
            /\ saveTimer' = Debounce(sessions')
  /\ UNCHANGED ops
  /\ lastOp' = Op("loadSessionsFromStorage", NoId, <<>>)
  /\ UNCHANGED << components, impl, isLoading, error, calls, abortControllerRef, storage, nextSid >>

\* useChatGPT.loadSessionsFromStorage, run by the mount effect
Hook_loadSessionsFromStorage ==
  /\ impl = "hook" /\ phase = "init"
  /\ phase' = "ready"
  /\ CASE ~HasText(storage) ->
            UNCHANGED << sessions, currentSession, saveTimer >>
       [] ParseThrows(storage) ->
            /\ sessions' = <<>>
            /\ saveTimer' = Debounce(sessions')
            /\ UNCHANGED currentSession
       [] storage.kind = "json" ->
            /\ sessions' = Parse(storage)
            /\ currentSession' = IF Len(sessions') > 0 THEN sessions'[1] ELSE currentSession
            /\ saveTimer' = Debounce(sessions')
  /\ UNCHANGED ops
  /\ lastOp' = Op("loadSessionsFromStorage", NoId, <<>>)
  /\ UNCHANGED << components, impl, isLoading, error, calls, abortControllerRef, storage, nextSid >>

\* The debounce timer fires: useChatGPT.saveSessionsToStorage.  w1 and w2 are
\* the outcomes of the write and of the retry.
Hook_saveSessionsToStorage(w1, w2) ==
  /\ impl = "hook" /\ phase = "ready"
  /\ saveTimer
  /\ IF w1 = "ok"
     THEN /\ storage' = Stringify(sessions)
          /\ saveTimer' = FALSE
          /\ UNCHANGED sessions
     ELSE LET recentSessions == Slice(sessions, KeepRecent)
          IN /\ sessions' = recentSessions
             /\ storage' = IF w2 = "ok" THEN Stringify(recentSessions) ELSE storage
             /\ saveTimer' = Debounce(recentSessions)
  /\ UNCHANGED ops
  /\ lastOp' = Op("saveSessionsToStorage", NoId, <<>>)
  /\ UNCHANGED << components, impl, phase, currentSession, isLoading, error, calls,
                  abortControllerRef, nextSid >>


\* ------------------------------------------------------------------
\* The service: ChatService
\* ------------------------------------------------------------------

\* ChatService.saveSessionsToStorage: a failed write is logged and dropped
Service_saveSessionsToStorage(ss, w, stored) == IF w = "ok" THEN Stringify(ss) ELSE stored

\* ChatService.addMessageToSession, on the pair of subjects
Service_addMessageToSession(st, sessionId, message) ==
  Store(AppendById(st.sessions, sessionId, message),
        IF IdOf(st.currentSession) = sessionId
        THEN Session(st.currentSession.id, Append(st.currentSession.messages, message))
        ELSE st.currentSession,
        st.isLoading, st.error)

\* ChatService.createNewSession
Service_createNewSession(w) ==
  /\ impl = "service" /\ phase = "ready" /\ ops < MaxOps
  /\ nextSid <= MaxSessions
  /\ LET session == Session(nextSid, <<>>)
     IN /\ sessions' = <<session>> \o sessions
        /\ currentSession' = session
  /\ storage' = Service_saveSessionsToStorage(sessions', w, storage)
  /\ nextSid' = nextSid + 1
  /\ ops' = ops + 1
  /\ lastOp' = Op("createNewSession", nextSid, <<>>)
  /\ UNCHANGED << components, impl, phase, isLoading, error, calls, abortControllerRef, saveTimer >>

\* ChatService.sendMessage and the subscription to the observable it returns:
\* the request is posted when the caller subscribes.  w1, w2 are the outcomes
\* of the writes of createNewSession and addMessageToSession.
Service_sendMessage(content, sessionId, w1, w2) ==
  /\ impl = "service" /\ phase = "ready" /\ ops < MaxOps
  /\ Len(calls) < MaxCalls
  /\ LET rid == Len(calls) + 1
         found == IF sessionId # NoId THEN Find(sessions, sessionId) ELSE currentSession
         create == found = Null
         newSession == Session(nextSid, <<>>)
         session == IF create THEN newSession ELSE found
         st0 == IF create
                THEN Store(<<newSession>> \o sessions, newSession, isLoading, error)
                ELSE Store(sessions, currentSession, isLoading, error)
         storage0 == IF create
                     THEN Service_saveSessionsToStorage(st0.sessions, w1, storage)
                     ELSE storage
         userMessage == Message(generateId(rid, "user"), "user", content, NoTokens)
         st1 == Service_addMessageToSession(st0, session.id, userMessage)
         messages == ApiMessages(session.messages)
     IN /\ create => nextSid <= MaxSessions
        /\ ~create => w1 = "ok"
        /\ sessions' = st1.sessions
        /\ currentSession' = st1.currentSession
        /\ isLoading' = TRUE
        /\ error' = NoError
        /\ storage' = Service_saveSessionsToStorage(st1.sessions, w2, storage0)
        /\ calls' = Append([r \in DOMAIN calls |->
                              IF calls[r].state # "settled"
                              THEN [calls[r] EXCEPT !.superseded = TRUE] ELSE calls[r]],
                            Call(session.id, userMessage, Null, NoId, messages))
        /\ nextSid' = IF create THEN nextSid + 1 ELSE nextSid
        /\ ops' = ops + 1
        /\ lastOp' = Op("sendMessage", sessionId, content)
  /\ UNCHANGED << components, impl, phase, abortControllerRef, saveTimer >>

\* The request of a call completes: the map / tap / catchError pipeline.
Service_response(rid, resp, w) ==
  /\ impl = "service"
  /\ rid \in DOMAIN calls
  /\ calls[rid].state = "fetch"
  /\ LET call == calls[rid]
         st == Store(sessions, currentSession, isLoading, error)
         failed == resp.kind # "ok"
         errorText == handleError(ServiceErr(resp))
         message ==
           IF failed
           THEN Message(generateId(rid, "assistant"), "assistant",
                        <<"Error: ">> \o errorText, NoTokens)
           ELSE Message(generateId(rid, "assistant"), "assistant",
                        ReplyContent(resp), resp.tokens)
         st1 == Service_addMessageToSession(st, call.sid, message)
     IN /\ sessions' = st1.sessions
        /\ currentSession' = st1.currentSession
        /\ isLoading' = FALSE
        /\ error' = IF failed THEN errorText ELSE error
        /\ storage' = Service_saveSessionsToStorage(st1.sessions, w, storage)
        /\ calls' = [calls EXCEPT ![rid] = Settle([@ EXCEPT !.resp = resp], Returned(message))]
  /\ UNCHANGED ops
  /\ lastOp' = Op("response", rid, <<>>)
  /\ UNCHANGED << components, impl, phase, abortControllerRef, saveTimer, nextSid >>

\* ChatService.selectSession
Service_selectSession(sessionId) ==
  /\ impl = "service" /\ phase = "ready" /\ ops < MaxOps
  /\ LET session == Find(sessions, sessionId)
     IN currentSession' = IF session # Null THEN session ELSE currentSession
  /\ ops' = ops + 1
  /\ lastOp' = Op("selectSession", sessionId, <<>>)
  /\ UNCHANGED << components, impl, phase, sessions, isLoading, error, calls, abortControllerRef,
                  storage, saveTimer, nextSid >>

\* ChatService.deleteSession
Service_deleteSession(sessionId, w) ==
  /\ impl = "service" /\ phase = "ready" /\ ops < MaxOps
  /\ sessions' = RemoveById(sessions, sessionId)
  /\ currentSession' =
       IF IdOf(currentSession) = sessionId
       THEN (IF Len(sessions') > 0 THEN sessions'[1] ELSE Null)
       ELSE currentSession
  /\ storage' = Service_saveSessionsToStorage(sessions', w, storage)
  /\ ops' = ops + 1
  /\ lastOp' = Op("deleteSession", sessionId, <<>>)
  /\ UNCHANGED << components, impl, phase, isLoading, error, calls, abortControllerRef,
                  saveTimer, nextSid >>

\* ChatService.clearSession
Service_clearSession(sessionId, w) ==
  /\ impl = "service" /\ phase = "ready" /\ ops < MaxOps
  /\ sessions' = ClearById(sessions, sessionId)
  /\ currentSession' =
       IF IdOf(currentSession) = sessionId
       THEN Session(currentSession.id, <<>>)
       ELSE currentSession
  /\ storage' = Service_saveSessionsToStorage(sessions', w, storage)
  /\ ops' = ops + 1
  /\ lastOp' = Op("clearSession", sessionId, <<>>)
  /\ UNCHANGED << components, impl, phase, isLoading, error, calls, abortControllerRef,
                  saveTimer, nextSid >>

\* ChatService.loadSessionsFromStorage, run by the constructor
Service_loadSessionsFromStorage ==
  /\ impl = "service" /\ phase = "init"
  /\ phase' = "ready"
  /\ sessions' = IF ~HasText(storage) THEN sessions
                 ELSE IF ParseThrows(storage) THEN <<>>
                 ELSE Parse(storage)
  /\ UNCHANGED ops
  /\ lastOp' = Op("loadSessionsFromStorage", NoId, <<>>)
  /\ UNCHANGED << components, impl, currentSession, isLoading, error, calls, abortControllerRef,
                  storage, saveTimer, nextSid >>

\* ------------------------------------------------------------------
\* The store
\* ------------------------------------------------------------------

\* The operations of the two stores, with the given contents of the messages
\* sent, the given outcomes of the writes to localStorage and the given
\* outcomes of the remote call.
NextFor(contents, outcomes, responses) ==
  \/ Hook_loadSessionsFromStorage
  \/ Hook_createNewSession
  \/ \E content \in contents, sessionId \in SessionIdArgs(sessions, currentSession) \cup {NoId} :
       Hook_sendMessage(content, sessionId)
  \/ \E rid \in 1..MaxCalls, resp \in responses : Hook_fetchSettles(rid, resp)
  \/ \E rid \in 1..MaxCalls, resp \in responses : Hook_bodySettles(rid, resp)
  \/ \E rid \in 1..MaxCalls : Hook_errorBodySettles(rid)
  \/ \E sessionId \in SessionIdArgs(sessions, currentSession) : Hook_selectSession(sessionId)
  \/ \E sessionId \in SessionIdArgs(sessions, currentSession) : Hook_deleteSession(sessionId)
  \/ \E sessionId \in SessionIdArgs(sessions, currentSession) : Hook_clearSession(sessionId)
  \/ \E w1, w2 \in outcomes : Hook_saveSessionsToStorage(w1, w2)
  \/ Service_loadSessionsFromStorage
  \/ \E w \in outcomes : Service_createNewSession(w)
  \/ \E content \in contents, sessionId \in SessionIdArgs(sessions, currentSession) \cup {NoId} :
       \E w1, w2 \in outcomes : Service_sendMessage(content, sessionId, w1, w2)
  \/ \E rid \in 1..MaxCalls, resp \in responses, w \in outcomes :
       Service_response(rid, resp, w)
  \/ \E sessionId \in SessionIdArgs(sessions, currentSession) : Service_selectSession(sessionId)
  \/ \E sessionId \in SessionIdArgs(sessions, currentSession), w \in outcomes :
       Service_deleteSession(sessionId, w)
  \/ \E sessionId \in SessionIdArgs(sessions, currentSession), w \in outcomes :
       Service_clearSession(sessionId, w)

\* The operations on the contents callers usually send.
NextOn(outcomes, responses) == NextFor(Contents, outcomes, responses)

\* The operations with the given outcomes of the writes to localStorage.
NextWith(outcomes) == NextOn(outcomes, Responses)

\* The store on a storage that accepts every write.
Next == NextWith({"ok"})

Spec == Init /\ [][Next]_vars


\* ------------------------------------------------------------------
\* Properties
\* ------------------------------------------------------------------

\* content.trim() === ''
IsBlank(content) == \A i \in DOMAIN content : content[i] = " "

\* The messages of the session with the given id in a session list
\* (none if the list has no such session).
MessagesOf(ss, id) == IF HasId(ss, id) THEN Find(ss, id).messages ELSE <<>>

\* The number of messages with the given id in a message list.
Occurrences(messages, id) == Cardinality({i \in DOMAIN messages : messages[i].id = id})

\* This step is a sendMessage call.
SendStep == lastOp'.name = "sendMessage" /\ ops' = ops + 1

\* The call made by the sendMessage step, if it made one.
NewCall == calls'[Len(calls')]

\* This step settles call r.
Settles(r) == r \in DOMAIN calls /\ calls[r].state # "settled" /\ calls'[r].state = "settled"

AllSettled == \A r \in DOMAIN calls : calls[r].state = "settled"

\* C1: in every reachable state the active-session reference is none or has
\* the id of a session in the session set.
C1_ActiveSessionInSet ==
  currentSession = Null \/ HasId(sessions, currentSession.id)

\* C2: a sendMessage call with non-empty content appends exactly one user
\* message with that content to the target session, and the request it
\* issues finds the message appended.
C2_UserMessageAppended ==
  [][ (SendStep /\ ~IsBlank(lastOp'.content)) =>
        /\ Len(calls') = Len(calls) + 1
        /\ NewCall.userMessage.role = "user"
        /\ NewCall.userMessage.content = lastOp'.content
        /\ HasId(sessions', NewCall.sid)
        /\ MessagesOf(sessions', NewCall.sid)
             = Append(MessagesOf(sessions, NewCall.sid), NewCall.userMessage) ]_vars

\* C3: at most one remote request is in flight at any time.
C3_AtMostOneInFlight ==
  Cardinality({r \in DOMAIN calls : InFlight(calls[r])}) <= 1

\* C4: two sendMessage calls on the same session, the second made while the
\* first was pending: once both have settled, exactly one of their assistant
\* messages is in the session.
C4_OneAssistantMessage ==
  ( /\ Len(calls) = 2
    /\ calls[1].sid = calls[2].sid
    /\ calls[1].superseded
    /\ AllSettled
    /\ HasId(sessions, calls[1].sid)
    /\ lastOp.name \in {"response", "fetchSettles", "bodySettles", "errorBodySettles"} )
  => Cardinality({i \in DOMAIN MessagesOf(sessions, calls[1].sid) :
                    MessagesOf(sessions, calls[1].sid)[i].role = "assistant"
                    /\ MessagesOf(sessions, calls[1].sid)[i].id[1] \in {1, 2}}) = 1

\* C5: a call superseded by a later call returns null, and its response or
\* failure neither appends an assistant message nor sets the error field.
C5_SupersededIsSilent ==
  [][ \A r \in DOMAIN calls' :
        (calls'[r].superseded /\ calls'[r].state = "settled") =>
          /\ calls'[r].result = ReturnedNull
          /\ \A i \in DOMAIN sessions' :
               Occurrences(sessions'[i].messages, generateId(r, "assistant")) = 0
          /\ Settles(r) => error' \in {error, NoError} ]_vars


\* This step settles some call.
SomeCallSettles == \E r \in DOMAIN calls : Settles(r)

\* C6: every way a call settles (success, failure, cancellation) leaves the
\* loading flag cleared, and the store is not loading once no call is pending.
C6_LoadingCleared ==
  [][ /\ SomeCallSettles => ~isLoading'
      /\ AllSettled' => ~isLoading' ]_vars

\* A cancelled call and a call that returned a message have both settled.
C6_Witness ==
  /\ Len(calls) = 2
  /\ calls[1].result = ReturnedNull
  /\ calls[2].result.kind = "message"
  /\ ~isLoading

\* Call r settles in this step, its remote call having failed (a network
\* error or a non-2xx status) without the call having been cancelled.
FailsUncancelled(r) ==
  /\ Settles(r)
  /\ ~calls'[r].superseded
  /\ calls'[r].resp.kind \in {"network", "http"}

\* C7 as stated: when the remote call of a sendMessage that was not cancelled
\* fails (network error or non-2xx status), the call returns an assistant
\* message whose content is the string recorded in the error field, and that
\* message is appended to the affected session exactly once.
C7_ErrorMessageIsErrorString ==
  [][ \A r \in DOMAIN calls :
        FailsUncancelled(r) =>
          /\ calls'[r].result.kind = "message"
          /\ error' # NoError
          /\ calls'[r].result.message.role = "assistant"
          /\ calls'[r].result.message.content = error'
          /\ LET messages == MessagesOf(sessions', calls[r].sid)
             IN /\ Len(messages) > 0
                /\ messages[Len(messages)] = calls'[r].result.message
                /\ Occurrences(messages, calls'[r].result.message.id) = 1 ]_vars

\* C7, amended: when the remote call of a sendMessage that was not cancelled
\* fails (network error or non-2xx status), the call returns (does not throw)
\* an assistant message whose content is "Error: " followed by the string
\* recorded in the error field; if the session is still in the set, the
\* message is its last message and occurs in it once.
C7_ErrorMessagePrefixed ==
  [][ \A r \in DOMAIN calls :
        FailsUncancelled(r) =>
          /\ calls'[r].result.kind = "message"
          /\ error' # NoError
          /\ calls'[r].result.message.role = "assistant"
          /\ calls'[r].result.message.content = <<"Error: ">> \o error'
          /\ HasId(sessions', calls[r].sid) =>
               LET messages == MessagesOf(sessions', calls[r].sid)
               IN /\ Len(messages) > 0
                  /\ messages[Len(messages)] = calls'[r].result.message
                  /\ Occurrences(messages, calls'[r].result.message.id) = 1 ]_vars

\* A call failed with HTTP 429 and its error message ends its session.
C7_Witness ==
  \E r \in DOMAIN calls :
    /\ calls[r].state = "settled"
    /\ ~calls[r].superseded
    /\ calls[r].resp.kind = "http"
    /\ error # NoError
    /\ HasId(sessions, calls[r].sid)
    /\ Len(MessagesOf(sessions, calls[r].sid)) > 1
    /\ MessagesOf(sessions, calls[r].sid)[Len(MessagesOf(sessions, calls[r].sid))]
         = calls[r].result.message

\* C8: sendMessage with content that is empty after trimming changes nothing:
\* no session, no message, loading and error as before, no request cancelled
\* or issued.
C8_BlankContentIsNoOp ==
  [][ (SendStep /\ IsBlank(lastOp'.content)) =>
        UNCHANGED << sessions, currentSession, isLoading, error, calls,
                     abortControllerRef, nextSid >> ]_vars

\* Three sessions stored by an earlier run, the second with an exchange.
SeveralSessions ==
  << Session(StoredSid + 1, <<>>),
     Session(StoredSid + 2, StoredSession.messages),
     Session(StoredSid + 3, <<>>) >>

\* The store started on a slot that holds the three sessions.
InitSeveral == InitWith({Stringify(SeveralSessions)})

\* The operations on that store, with one content and the two outcomes of
\* the remote call that reach every step of a call.
NextSeveral ==
  NextFor({<<"hi">>}, {"ok"},
          { Resp("ok", 200, <<"reply">>, 42, <<>>), Resp("http", 429, <<>>, NoTokens, <<>>) })

SpecSeveral == InitSeveral /\ [][NextSeveral]_vars

\* The positions of the sessions that deleteSession(id) keeps.
Kept(ss, id) == {i \in DOMAIN ss : ss[i].id # id}

\* The position in ss of the j-th session that deleteSession(id) keeps.
NthKept(ss, id, j) ==
  CHOOSE i \in Kept(ss, id) : Cardinality({k \in Kept(ss, id) : k <= i}) = j

C10_PayloadIsHistory ==
  [][ (SendStep /\ Len(calls') = Len(calls) + 1) =>
        /\ NewCall.payload = ApiMessages(MessagesOf(sessions', NewCall.sid))
        /\ Len(NewCall.payload) > 0
        /\ NewCall.payload[Len(NewCall.payload)]
             = [role |-> "user", content |-> lastOp'.content] ]_vars

\* ------------------------------------------------------------------
\* Remote failures by cause
\* ------------------------------------------------------------------

\* More outcomes of the remote call: a 2xx whose body has an empty choices
\* array, and non-2xx responses with status 401, 429 and 500, with and
\* without an error.message in the body.
FailureResponses ==
  { Resp("ok", 200, <<>>, NoTokens, <<>>),
    Resp("http", 401, <<>>, NoTokens, <<>>),
    Resp("http", 401, <<>>, NoTokens, <<"Incorrect ", "API key", " provided">>),
    Resp("http", 429, <<>>, NoTokens, <<"Rate limit reached for requests">>),
    Resp("http", 429, <<>>, NoTokens, <<"You exceeded your current quota">>),
    Resp("http", 500, <<>>, NoTokens, <<>>) }

\* The store with every outcome of the remote call.
NextRemote == NextOn({"ok"}, Responses \cup FailureResponses)

SpecRemote == Init /\ [][NextRemote]_vars

\* The strings the two stores show for a rate limit and for a failed
\* authentication.
RateLimitString == <<"Limite de rate excedido. Intenta nuevamente en unos momentos">>

AuthString ==
  IF impl = "hook" THEN <<"API key invalida o no configurada">>
  ELSE <<"API key invalida o expirada">>

\* Call r has settled as a failure of a call that was not cancelled.
Failed(r) ==
  /\ calls[r].state = "settled"
  /\ ~calls[r].superseded
  /\ calls[r].resp.kind \in {"http", "network", "malformed"}
  /\ calls[r].result.kind = "message"

\* The error string shown by the assistant message of a failed call: its
\* content, without the "Error: " the stores put in front.
ShownError(r) ==
  LET content == calls[r].result.message.content
  IN IF Len(content) > 0 /\ content[1] = "Error: " THEN Tail(content) ELSE content

\* C11: the assistant message of every failure with HTTP status 429 shows the
\* rate-limit string, whatever the body of the response carries.
C11_RateLimitString ==
  \A r \in DOMAIN calls :
    (Failed(r) /\ calls[r].resp.kind = "http" /\ calls[r].resp.status = 429)
      => ShownError(r) = RateLimitString

\* The cause of a failed response.
Cause(resp) ==
  CASE resp.kind = "network" -> "connectivity"
    [] resp.kind = "http" /\ resp.status = 401 -> "authentication"
    [] resp.kind = "http" /\ resp.status = 429 /\ resp.body = <<"You exceeded your current quota">>
         -> "quota"
    [] resp.kind = "http" /\ resp.status = 429 -> "rate limit"
    [] OTHER -> "unknown"

\* C12: every failure with HTTP status 401 shows the authentication string,
\* and two failures of different causes never show the same string.
C12_ClassifiedByCause ==
  /\ \A r \in DOMAIN calls :
       (Failed(r) /\ Cause(calls[r].resp) = "authentication") => ShownError(r) = AuthString
  /\ \A r1, r2 \in DOMAIN calls :
       (Failed(r1) /\ Failed(r2) /\ Cause(calls[r1].resp) # Cause(calls[r2].resp))
         => ShownError(r1) # ShownError(r2)

\* The body of a 2xx response has no choices[0].message.content.
LacksCompletion(resp) ==
  resp.kind = "malformed" \/ (resp.kind = "ok" /\ resp.content = <<>>)

\* C13: a call that receives a 2xx response without the completion field
\* settles as a failure: the error field is set and the assistant message of
\* the call is an error message.
C13_MissingCompletionIsFailure ==
  [][ \A r \in DOMAIN calls :
        (Settles(r) /\ ~calls'[r].superseded /\ LacksCompletion(calls'[r].resp)) =>
          /\ error' # NoError
          /\ calls'[r].result.kind = "message"
          /\ calls'[r].result.message.content = <<"Error: ">> \o error' ]_vars


\* ------------------------------------------------------------------
\* Token counts
\* ------------------------------------------------------------------

\* messages.reduce((sessionTotal, message) => sessionTotal + (message.tokens || 0), 0)
RECURSIVE MessageTokens(_)
MessageTokens(messages) ==
  IF messages = <<>> THEN 0
  ELSE (IF Head(messages).tokens > 0 THEN Head(messages).tokens ELSE 0)
       + MessageTokens(Tail(messages))

\* targetSessions.reduce((total, session) => total + ..., 0)
RECURSIVE SessionTokens(_)
SessionTokens(ss) ==
  IF ss = <<>> THEN 0 ELSE MessageTokens(Head(ss).messages) + SessionTokens(Tail(ss))

\* useChatGPT.getTotalTokensUsed; NoId stands for a call without sessionId
getTotalTokensUsed(ss, sessionId) ==
  SessionTokens(IF sessionId # NoId THEN SelectSeq(ss, LAMBDA x : x.id = sessionId) ELSE ss)

\* Successful responses with usage.total_tokens 42 and 58, and one without usage.
TokenResponses ==
  { Resp("ok", 200, <<"reply">>, 42, <<>>),
    Resp("ok", 200, <<"reply">>, 58, <<>>),
    Resp("ok", 200, <<"reply">>, NoTokens, <<>>) }

\* The hook used for exchanges only: messages are sent and answered.
InitExchanges == Init /\ impl = "hook"

NextExchanges ==
  \/ Hook_loadSessionsFromStorage
  \/ \E content \in Contents, sessionId \in SessionIdArgs(sessions, currentSession) \cup {NoId} :
       Hook_sendMessage(content, sessionId)
  \/ \E rid \in 1..MaxCalls, resp \in TokenResponses : Hook_fetchSettles(rid, resp)
  \/ \E rid \in 1..MaxCalls, resp \in TokenResponses : Hook_bodySettles(rid, resp)

SpecExchanges == InitExchanges /\ [][NextExchanges]_vars

\* The token counts returned by the successful exchanges of calls 1..n for
\* the session with the given id.
RECURSIVE TokensReturned(_, _)
TokensReturned(n, id) ==
  IF n = 0 THEN 0
  ELSE TokensReturned(n - 1, id)
       + (IF /\ calls[n].sid = id
             /\ calls[n].result.kind = "message"
             /\ calls[n].resp.kind = "ok"
             /\ calls[n].resp.tokens > 0
          THEN calls[n].resp.tokens ELSE 0)

\* The token counts the session had when it was loaded from storage.
TokensLoaded(id) ==
  IF storage.kind = "json" THEN getTotalTokensUsed(Parse(storage), id) ELSE 0

\* The token counts session id was loaded with and was returned since.
TokensExpected(id) == TokensLoaded(id) + TokensReturned(Len(calls), id)

\* The sum of TokensExpected over the first n sessions of the list.
RECURSIVE TokensExpectedUpTo(_)
TokensExpectedUpTo(n) ==
  IF n = 0 THEN 0 ELSE TokensExpectedUpTo(n - 1) + TokensExpected(sessions[n].id)

\* C14: once the exchanges have completed, getTotalTokensUsed(id) is the sum
\* of the token counts returned for that session (plus those it was loaded
\* with), and getTotalTokensUsed() is the sum over all sessions; a message
\* without token count adds nothing.
C14_TokensAreSummed ==
  (phase = "ready" /\ AllSettled) =>
    /\ \A i \in DOMAIN sessions :
         getTotalTokensUsed(sessions, sessions[i].id) = TokensExpected(sessions[i].id)
    /\ getTotalTokensUsed(sessions, NoId) = TokensExpectedUpTo(Len(sessions))

\* ------------------------------------------------------------------
\* Persistence
\* ------------------------------------------------------------------

\* This step of a loaded store changes the session list, or is the save that
\* the debounce timer of the hook runs.
MutatesOrSaves == phase = "ready" /\ (sessions' # sessions \/ (saveTimer /\ ~saveTimer'))

\* C15: after a step that changes the session list or saves it, unless a save
\* is still to come (the debounce timer is armed), the storage slot holds the
\* serialization of the session list and a store loading it gets that list.
C15_SlotHoldsSessions ==
  [][ (MutatesOrSaves /\ ~saveTimer') =>
        /\ storage' = Stringify(sessions')
        /\ Parse(storage') = sessions' ]_vars


\* C16: a store whose storage slot is missing or does not hold a session
\* array comes out of its initialization ready, with no session, no active
\* session and no error.
C16_CorruptStorageIsEmpty ==
  (phase # "init" /\ lastOp.name = "loadSessionsFromStorage"
     /\ storage.kind \in {"missing", "corrupt"})
    => /\ phase = "ready"
       /\ sessions = <<>>
       /\ currentSession = Null
       /\ error = NoError
       /\ ~isLoading

\* A store has just been initialized from a corrupted slot.
C16_Witness ==
  /\ lastOp.name = "loadSessionsFromStorage"
  /\ storage = Corrupt
  /\ phase = "ready"
  /\ sessions = <<>>


\* ------------------------------------------------------------------
\* A full storage
\* ------------------------------------------------------------------

\* One session more than saveSessionsToStorage keeps, as stored by an earlier
\* run; the ids follow StoredSid.
ManySessions == [i \in 1..(KeepRecent + 1) |-> Session(StoredSid + i, <<>>)]

\* The remote outcomes used with a full storage: a reply and a failure.
QuotaResponses ==
  { Resp("ok", 200, <<"reply">>, 42, <<>>),
    Resp("http", 429, <<>>, NoTokens, <<>>) }

\* The store started on a slot with more than KeepRecent sessions, on a
\* storage whose writes may fail with QuotaExceededError.
InitQuota == InitWith({Stringify(ManySessions)})

NextQuota == NextOn(WriteOutcomes, QuotaResponses)

SpecQuota == InitQuota /\ [][NextQuota]_vars

\* This step runs saveSessionsToStorage.
WritesSlot ==
  /\ phase = "ready"
  /\ IF impl = "hook"
     THEN lastOp'.name = "saveSessionsToStorage"
     ELSE /\ ops' = ops + 1 \/ lastOp'.name = "response"
          /\ lastOp'.name # "selectSession"

\* C17: a save whose writes fail leaves the slot as it was and the store
\* ready, holding at most the 10 most recent sessions (the first 10 of the
\* list it had to write).
C17_QuotaKeepsRecent ==
  [][ (WritesSlot /\ storage' # Stringify(sessions')) =>
        /\ storage' = storage
        /\ phase' = "ready"
        /\ Len(sessions') <= KeepRecent
        /\ impl = "hook" => sessions' = Slice(sessions, KeepRecent) ]_vars


\* ------------------------------------------------------------------
\* Session operations
\* ------------------------------------------------------------------

\* C18: the target of a sendMessage call is the session with the sessionId
\* passed, if there is one; otherwise the active session, if there is one;
\* otherwise a new session, and only then is a session created.
C18_TargetResolution ==
  [][ (SendStep /\ Len(calls') = Len(calls) + 1) =>
        LET byId == lastOp'.id # NoId /\ HasId(sessions, lastOp'.id)
            byActive == currentSession # Null
        IN /\ NewCall.sid = IF byId THEN lastOp'.id
                            ELSE IF byActive THEN currentSession.id
                            ELSE nextSid
           /\ (Len(sessions') = Len(sessions) + 1) <=> (~byId /\ ~byActive)
           /\ Len(sessions') \in {Len(sessions), Len(sessions) + 1} ]_vars


\* C19: selectSession(id) with the id of a session of the set makes that
\* session the active one and clears the error field; with any other id it
\* leaves the active session and the error field alone.  The session set is
\* unchanged in both cases.
C19_SelectSession ==
  [][ lastOp'.name = "selectSession" =>
        /\ sessions' = sessions
        /\ HasId(sessions, lastOp'.id) =>
             /\ currentSession' = Find(sessions, lastOp'.id)
             /\ error' = NoError
        /\ ~HasId(sessions, lastOp'.id) => UNCHANGED << currentSession, error >> ]_vars


\* C20: createNewSession puts a new session without messages in front of the
\* sessions there were, which stay as they were and in their order, and
\* makes it the active session.
C20_CreateSession ==
  [][ lastOp'.name = "createNewSession" =>
        /\ Len(sessions') = Len(sessions) + 1
        /\ sessions'[1].id = lastOp'.id
        /\ sessions'[1].messages = <<>>
        /\ Tail(sessions') = sessions
        /\ currentSession' = sessions'[1] ]_vars

\* Two sessions were created after the stored one was loaded; the last one
\* created is first and active.
C20_Witness ==
  /\ lastOp.name = "createNewSession"
  /\ Len(sessions) = 3
  /\ sessions[1].id = 2 /\ sessions[2].id = 1 /\ sessions[3] = StoredSession
  /\ currentSession = sessions[1]


\* C21: clearSession(id) empties the messages of the session with that id
\* and of no other, keeps every session at its position, and keeps the id
\* of the active session; with an id that no session has the list is
\* unchanged.
C21_ClearSession ==
  [][ lastOp'.name = "clearSession" =>
        /\ Len(sessions') = Len(sessions)
        /\ \A i \in DOMAIN sessions :
             /\ sessions'[i].id = sessions[i].id
             /\ sessions'[i].messages =
                  IF sessions[i].id = lastOp'.id THEN <<>> ELSE sessions[i].messages
        /\ IdOf(currentSession') = IdOf(currentSession)
        /\ ~HasId(sessions, lastOp'.id) => sessions' = sessions ]_vars

\* The stored session was cleared while the session before it kept its message.
C21_Witness ==
  /\ lastOp.name = "clearSession"
  /\ lastOp.id = StoredSid
  /\ Len(sessions) = 2
  /\ Len(sessions[1].messages) > 0
  /\ sessions[2] = Session(StoredSid, <<>>)


\* ------------------------------------------------------------------
\* Export
\* ------------------------------------------------------------------

\* exportSession(sessionId, 'json'): '' for an id no session has
exportSession(ss, sessionId) ==
  IF HasId(ss, sessionId) THEN ExportJson(Find(ss, sessionId)) ELSE EmptyText

\* The caller exports a session in json form and puts the text into the
\* storage slot; a new store is then constructed on that slot.
ExportAndRestart(sessionId) ==
  /\ phase = "ready" /\ ops < MaxOps
  /\ storage' = exportSession(sessions, sessionId)
  /\ phase' = "init"
  /\ sessions' = <<>>
  /\ currentSession' = Null
  /\ isLoading' = FALSE
  /\ error' = NoError
  /\ calls' = <<>>
  /\ abortControllerRef' = NoId
  /\ saveTimer' = FALSE
  /\ ops' = ops + 1
  /\ lastOp' = Op("exportSession", sessionId, <<>>)
  /\ UNCHANGED << components, impl, nextSid >>

NextExport ==
  \/ Next
  \/ \E sessionId \in SessionIdArgs(sessions, currentSession) : ExportAndRestart(sessionId)

SpecExport == Init /\ [][NextExport]_vars

\* The ids, roles and contents of a message list, in order.
Core(messages) ==
  [i \in DOMAIN messages |->
     [id |-> messages[i].id, role |-> messages[i].role, content |-> messages[i].content]]

\* C22: the json export of a session carries its messages, and a store that
\* deserializes the exported text has a session with the same ids, roles and
\* contents in the same order.
C22_ExportRoundTrip ==
  [][ /\ (lastOp'.name = "exportSession" /\ HasId(sessions, lastOp'.id)) =>
           /\ storage'.kind = "object"
           /\ Core(ParseSession(storage'.value).messages)
                = Core(Find(sessions, lastOp'.id).messages)
      /\ (phase = "init" /\ phase' = "ready" /\ storage.kind = "object") =>
           /\ HasId(sessions', storage.value.id)
           /\ Core(MessagesOf(sessions', storage.value.id))
                = Core(ParseSession(storage.value).messages) ]_vars


\* ------------------------------------------------------------------
\* Message lists
\* ------------------------------------------------------------------

\* Sequence a is the start of sequence b.
IsPrefix(a, b) == Len(a) <= Len(b) /\ SubSeq(b, 1, Len(a)) = a

\* C23: in every step, the messages of a session that stays in the list are
\* unchanged, or extended at the end, or emptied by clearSession of that
\* session.
C23_AppendOnly ==
  [][ \A i \in DOMAIN sessions :
        HasId(sessions', sessions[i].id) =>
          \/ IsPrefix(sessions[i].messages, MessagesOf(sessions', sessions[i].id))
          \/ /\ lastOp'.name = "clearSession"
             /\ lastOp'.id = sessions[i].id
             /\ MessagesOf(sessions', sessions[i].id) = <<>> ]_vars


\* C24: while a request is in flight (issued, not cancelled, not settled) the
\* loading flag is set.
C24_LoadingWhileInFlight ==
  (\E r \in DOMAIN calls : InFlight(calls[r])) => isLoading


\* C25: when a session has just been cleared while a request for it was
\* pending and the request now settles, the session holds nothing but the
\* assistant message of that request: none of the messages it had before
\* the clear is back.
C25_ClearedStaysCleared ==
  [][ \A r \in DOMAIN calls :
        ( /\ lastOp.name = "clearSession"
          /\ calls[r].sid = lastOp.id
          /\ Settles(r)
          /\ HasId(sessions', lastOp.id) )
        => \A k \in DOMAIN MessagesOf(sessions', lastOp.id) :
             MessagesOf(sessions', lastOp.id)[k].id = generateId(r, "assistant") ]_vars


\* C26: the active session object has the messages of the session of the
\* list that has its id.
C26_ActiveSessionInSync ==
  (currentSession # Null /\ HasId(sessions, currentSession.id))
    => currentSession.messages = MessagesOf(sessions, currentSession.id)


\* ------------------------------------------------------------------
\* The todo list: TodoList (React) and TodoListComponent (Angular)
\* ------------------------------------------------------------------

\* A text is a sequence of chunks; the chunk " " is whitespace and no other
\* chunk begins or ends with whitespace.  createdAt is not modelled.
Todo(id, text, completed) == [id |-> id, text |-> text, completed |-> completed]

\* String.prototype.trimStart on a text
RECURSIVE trimStart(_)
trimStart(text) ==
  IF text # <<>> /\ Head(text) = " " THEN trimStart(Tail(text)) ELSE text

\* String.prototype.trimEnd on a text
RECURSIVE trimEnd(_)
trimEnd(text) ==
  IF text # <<>> /\ text[Len(text)] = " "
  THEN trimEnd(SubSeq(text, 1, Len(text) - 1))
  ELSE text

\* String.prototype.trim on a text
trim(text) == trimEnd(trimStart(text))

\* The texts typed into the inputs.
TaskTexts == { <<>>, <<" ">>, <<"a">>, <<" ", "b", " ">> }

FilterTypes == {"all", "pending", "completed"}

\* The sample data both components start with.
sampleTodos ==
  IF impl = "hook"
  THEN << Todo(1, <<"Aprender React con GitHub Copilot">>, TRUE),
          Todo(2, <<"Crear componente de perfil de usuario">>, FALSE),
          Todo(3, <<"Implementar hooks personalizados">>, FALSE) >>
  ELSE << Todo(1, <<"Aprender Angular con GitHub Copilot">>, TRUE),
          Todo(2, <<"Crear componente de perfil de usuario">>, FALSE),
          Todo(3, <<"Implementar validación de formularios">>, FALSE) >>

IsCompleted(todo) == todo.completed

IsPending(todo) == ~todo.completed

\* The switch of filteredTodos / filteredTodos$ on the filter.
applyFilter(ts, f) ==
  CASE f = "completed" -> SelectSeq(ts, IsCompleted)
    [] f = "pending"   -> SelectSeq(ts, IsPending)
    [] OTHER           -> ts

\* React: the render after a handler recomputes the memo from the new state.
Render == filteredTodos' = applyFilter(todos', filter')

\* Angular: todosSubject.next(ts) runs the map of filteredTodos$ with the
\* filter of that moment and the async pipe keeps the result.
Emit(ts) == todos' = ts /\ filteredTodos' = applyFilter(ts, filter)

\* The ids generateId has given out, and the todos of the list.
TodoIds == 1..(nextTodoId - 1)

TodosOf(ts) == { ts[k] : k \in DOMAIN ts }

\* todos.map(todo => todo.id === id ? f(todo) : todo), f given as a function
MapById(ts, id, f) == [k \in DOMAIN ts |-> IF ts[k].id = id THEN f[ts[k]] ELSE ts[k]]

Toggled(ts) == [t \in TodosOf(ts) |-> [t EXCEPT !.completed = ~t.completed]]

WithText(ts, text) == [t \in TodosOf(ts) |-> [t EXCEPT !.text = text]]

\* todos.filter(todo => todo.id !== id)
WithoutId(ts, id) ==
  LET Other(t) == t.id # id IN SelectSeq(ts, Other)

\* One step of a todo list: the operation counts, the rest of the module rests.
TodoStep(name, id, text) ==
  /\ ops < MaxEdits
  /\ ops' = ops + 1
  /\ lastOp' = Op(name, id, text)
  /\ UNCHANGED << store, userProfile >>

\* -------- React --------

\* addTask, the input holding newTaskText
TodoList_addTask_Untrimmed(newTaskText) ==
  /\ impl = "hook"
  /\ IF trim(newTaskText) # <<>>
     THEN /\ todos' = << Todo(nextTodoId, newTaskText, FALSE) >> \o todos
          /\ nextTodoId' = nextTodoId + 1
     ELSE UNCHANGED << todos, nextTodoId >>
  /\ UNCHANGED << filter, editingTodo >>
  /\ Render
  /\ TodoStep("addTask", NoId, newTaskText)

TodoList_addTask(newTaskText) ==
  /\ impl = "hook"
  /\ IF trim(newTaskText) # <<>>
     THEN /\ todos' = << Todo(nextTodoId, trim(newTaskText), FALSE) >> \o todos
          /\ nextTodoId' = nextTodoId + 1
     ELSE UNCHANGED << todos, nextTodoId >>
  /\ UNCHANGED << filter, editingTodo >>
  /\ Render
  /\ TodoStep("addTask", NoId, newTaskText)

TodoList_toggleTask(id) ==
  /\ impl = "hook"
  /\ todos' = MapById(todos, id, Toggled(todos))
  /\ UNCHANGED << filter, editingTodo, nextTodoId >>
  /\ Render
  /\ TodoStep("toggleTask", id, <<>>)

TodoList_deleteTask(id) ==
  /\ impl = "hook"
  /\ todos' = WithoutId(todos, id)
  /\ UNCHANGED << filter, editingTodo, nextTodoId >>
  /\ Render
  /\ TodoStep("deleteTask", id, <<>>)

TodoList_startEditing(todo) ==
  /\ impl = "hook"
  /\ editingTodo' = todo
  /\ UNCHANGED << todos, filter, nextTodoId >>
  /\ Render
  /\ TodoStep("editTask", todo.id, <<>>)

TodoList_saveEdit(newText) ==
  /\ impl = "hook"
  /\ IF editingTodo # Null /\ trim(newText) # <<>>
     THEN /\ todos' = MapById(todos, editingTodo.id, WithText(todos, trim(newText)))
          /\ editingTodo' = Null
     ELSE UNCHANGED << todos, editingTodo >>
  /\ UNCHANGED << filter, nextTodoId >>
  /\ Render
  /\ TodoStep("saveEdit", IF editingTodo = Null THEN NoId ELSE editingTodo.id, newText)

TodoList_cancelEdit ==
  /\ impl = "hook"
  /\ editingTodo' = Null
  /\ UNCHANGED << todos, filter, nextTodoId >>
  /\ Render
  /\ TodoStep("cancelEdit", IF editingTodo = Null THEN NoId ELSE editingTodo.id, <<>>)

TodoList_setFilter(f) ==
  /\ impl = "hook"
  /\ filter' = f
  /\ UNCHANGED << todos, editingTodo, nextTodoId >>
  /\ Render
  /\ TodoStep("setFilter", NoId, f)

\* -------- Angular --------

TodoListComponent_addTask(text) ==
  /\ impl = "service"
  /\ IF trim(text) # <<>>
     THEN /\ Emit(Append(todos, Todo(nextTodoId, trim(text), FALSE)))
          /\ nextTodoId' = nextTodoId + 1
     ELSE UNCHANGED << todos, filteredTodos, nextTodoId >>
  /\ UNCHANGED << filter, editingTodo >>
  /\ TodoStep("addTask", NoId, text)

TodoListComponent_toggleTask(id) ==
  /\ impl = "service"
  /\ Emit(MapById(todos, id, Toggled(todos)))
  /\ UNCHANGED << filter, editingTodo, nextTodoId >>
  /\ TodoStep("toggleTask", id, <<>>)

TodoListComponent_deleteTask(id) ==
  /\ impl = "service"
  /\ Emit(WithoutId(todos, id))
  /\ UNCHANGED << filter, editingTodo, nextTodoId >>
  /\ TodoStep("deleteTask", id, <<>>)

TodoListComponent_editTask(todo) ==
  /\ impl = "service"
  /\ editingTodo' = todo
  /\ UNCHANGED << todos, filter, filteredTodos, nextTodoId >>
  /\ TodoStep("editTask", todo.id, <<>>)

\* saveEdit writing back the copy taken by editTask instead of the listed todo
TodoListComponent_saveEdit_FromCopy(newText) ==
  /\ impl = "service"
  /\ IF editingTodo # Null /\ trim(newText) # <<>>
     THEN /\ Emit([k \in DOMAIN todos |->
                     IF todos[k].id = editingTodo.id
                     THEN [editingTodo EXCEPT !.text = trim(newText)]
                     ELSE todos[k]])
          /\ editingTodo' = Null
     ELSE UNCHANGED << todos, filteredTodos, editingTodo >>
  /\ UNCHANGED << filter, nextTodoId >>
  /\ TodoStep("saveEdit", IF editingTodo = Null THEN NoId ELSE editingTodo.id, newText)

TodoListComponent_saveEdit(newText) ==
  /\ impl = "service"
  /\ IF editingTodo # Null /\ trim(newText) # <<>>
     THEN /\ Emit(MapById(todos, editingTodo.id, WithText(todos, trim(newText))))
          /\ editingTodo' = Null
     ELSE UNCHANGED << todos, filteredTodos, editingTodo >>
  /\ UNCHANGED << filter, nextTodoId >>
  /\ TodoStep("saveEdit", IF editingTodo = Null THEN NoId ELSE editingTodo.id, newText)

TodoListComponent_cancelEdit ==
  /\ impl = "service"
  /\ editingTodo' = Null
  /\ UNCHANGED << todos, filter, filteredTodos, nextTodoId >>
  /\ TodoStep("cancelEdit", IF editingTodo = Null THEN NoId ELSE editingTodo.id, <<>>)

TodoListComponent_setFilter(f) ==
  /\ impl = "service"
  /\ filter' = f
  /\ UNCHANGED << todos, editingTodo, filteredTodos, nextTodoId >>
  /\ TodoStep("setFilter", NoId, f)

\* The todo list after its first render: the sample data is in the list and
\* in the view.
InitTodoList ==
  /\ StoreWith({Missing})
  /\ UserProfileConstructed
  /\ todos = sampleTodos
  /\ filter = "all"
  /\ editingTodo = Null
  /\ filteredTodos = sampleTodos
  /\ nextTodoId = 4

NextTodoList ==
  \/ \E text \in TaskTexts : TodoList_addTask(text)
  \/ \E id \in TodoIds : TodoList_toggleTask(id)
  \/ \E id \in TodoIds : TodoList_deleteTask(id)
  \/ \E todo \in TodosOf(todos) : TodoList_startEditing(todo)
  \/ \E text \in TaskTexts : TodoList_saveEdit(text)
  \/ TodoList_cancelEdit
  \/ \E f \in FilterTypes : TodoList_setFilter(f)
  \/ \E text \in TaskTexts : TodoListComponent_addTask(text)
  \/ \E id \in TodoIds : TodoListComponent_toggleTask(id)
  \/ \E id \in TodoIds : TodoListComponent_deleteTask(id)
  \/ \E todo \in TodosOf(todos) : TodoListComponent_editTask(todo)
  \/ \E text \in TaskTexts : TodoListComponent_saveEdit(text)
  \/ TodoListComponent_cancelEdit
  \/ \E f \in FilterTypes : TodoListComponent_setFilter(f)

SpecTodoList == InitTodoList /\ [][NextTodoList]_vars

\* C27: in the Angular todo list, after setFilter(f) the list the view gets
\* from filteredTodos$ is the current todo list filtered by f, without a
\* later change of the todo list.
C27_FilterDelivered ==
  (impl = "service" /\ lastOp.name = "setFilter")
    => filteredTodos = applyFilter(todos, lastOp.content)

\* The ids of a todo list, in order.
IdsOf(ts) == [k \in DOMAIN ts |-> ts[k].id]

\* C28: in both todo-list components, adding a text that is empty after
\* trimming leaves the todo list unchanged; adding any other text inserts
\* exactly one new not-completed todo with the trimmed text (at the start in
\* the React component, at the end in the Angular one) and leaves the
\* existing todos and their order unchanged.
C28_AddTask ==
  [][ lastOp'.name = "addTask" =>
        IF trim(lastOp'.content) = <<>>
        THEN todos' = todos
        ELSE /\ Len(todos') = Len(todos) + 1
             /\ LET at == IF impl = "hook" THEN 1 ELSE Len(todos')
                    rest == IF impl = "hook" THEN Tail(todos')
                            ELSE SubSeq(todos', 1, Len(todos))
                IN /\ todos'[at].text = trim(lastOp'.content)
                   /\ ~todos'[at].completed
                   /\ \A k \in DOMAIN todos : todos'[at].id # todos[k].id
                   /\ rest = todos ]_vars

\* A padded text was added to a list that held todos.
C28_Witness ==
  /\ lastOp.name = "addTask"
  /\ trim(lastOp.content) # <<>>
  /\ trim(lastOp.content) # lastOp.content
  /\ Len(todos) > 1
  /\ \E k \in DOMAIN todos : todos[k].text = trim(lastOp.content)

\* C29: in both todo-list components, saveEdit(text) with a text that is not
\* empty after trimming changes only the text of the todo whose id is that of
\* the todo being edited (none added, removed or reordered, a todo deleted
\* during editing not recreated) and leaves edit mode; with an empty trimmed
\* text it changes nothing and stays in edit mode; cancelEdit leaves edit
\* mode without changing the todo list.
C29_SaveEdit ==
  [][ /\ (lastOp'.name = "saveEdit" /\ editingTodo # Null) =>
          IF trim(lastOp'.content) # <<>>
          THEN /\ IdsOf(todos') = IdsOf(todos)
               /\ \A k \in DOMAIN todos :
                    /\ todos'[k].completed = todos[k].completed
                    /\ todos'[k].text =
                         IF todos[k].id = editingTodo.id
                         THEN trim(lastOp'.content)
                         ELSE todos[k].text
               /\ editingTodo' = Null
          ELSE todos' = todos /\ editingTodo' = editingTodo
      /\ lastOp'.name = "cancelEdit" => (todos' = todos /\ editingTodo' = Null) ]_vars

\* A todo that was changed while it was being edited got a padded text saved.
C29_Witness ==
  /\ lastOp.name = "saveEdit"
  /\ lastOp.id # NoId
  /\ editingTodo = Null
  /\ trim(lastOp.content) # lastOp.content
  /\ \E k \in DOMAIN todos :
       /\ todos[k].id = lastOp.id
       /\ todos[k].text = trim(lastOp.content)
       /\ lastOp.id \in DOMAIN sampleTodos
       /\ todos[k].completed # sampleTodos[lastOp.id].completed

\* ------------------------------------------------------------------
\* The user profile: UserProfile (React) and UserProfileComponent (Angular)
\* ------------------------------------------------------------------

\* A name or an email is a sequence of characters: letters, "@", "." and the
\* space.  A department is the value of the selected option.
User(name, email, age, department) ==
  [name |-> name, email |-> email, age |-> age, department |-> department]

\* The user the component is given.
SampleUser == User(<<"A", "n", "a">>, <<"a", "@", "b", ".", "c">>, 30, "Engineering")

\* The values typed or selected in the form.
NameInputs == { <<>>, <<"a">>, <<" ", "a">>, <<" ", " ">>, <<"a", "b">> }

EmailInputs ==
  { <<>>, <<"a", "b">>, <<"a", "@", "b">>, <<"a", "@", "b", ".", "c">>,
    <<"a", " ", "@", "b", ".", "c">>, <<"a", "@", "b", ".">> }

AgeInputs == { 0, 17, 18, 120, 121 }

DepartmentInputs == { "", "Marketing" }

FieldInputs ==
  ({"name"} \X NameInputs) \cup ({"email"} \X EmailInputs)
    \cup ({"age"} \X AgeInputs) \cup ({"department"} \X DepartmentInputs)

\* /^[^\s@]+@[^\s@]+\.[^\s@]+$/.test(email)
emailRegex(email) ==
  \E i, j \in DOMAIN email :
     /\ 1 < i /\ i + 1 < j /\ j < Len(email)
     /\ email[i] = "@" /\ email[j] = "."
     /\ \A k \in DOMAIN email : email[k] # " " /\ (email[k] = "@" => k = i)

\* The errors validateForm returns, as the set of the rejected fields.
validateForm(form) ==
  { f \in {"name"} : trim(form.name) = <<>> \/ Len(trim(form.name)) < 2 }
    \cup { f \in {"email"} : trim(form.email) = <<>> \/ ~emailRegex(form.email) }
    \cup { f \in {"age"} : form.age = 0 \/ form.age < 18 \/ form.age > 120 }
    \cup { f \in {"department"} : form.department = "" }

\* One step of a user profile: the operation counts, the rest of the module rests.
ProfileStep(name, field, value) ==
  /\ ops < MaxEdits
  /\ ops' = ops + 1
  /\ lastOp' = Op(name, field, value)
  /\ UNCHANGED << store, todoList >>

\* -------- React --------

UserProfile_handleEnableEditing ==
  /\ impl = "hook" /\ ~isEditing
  /\ isEditing' = TRUE
  /\ errors' = {}
  /\ UNCHANGED << user, formData, userUpdated >>
  /\ ProfileStep("enableEditing", "", <<>>)

UserProfile_handleInputChange(field, value) ==
  /\ impl = "hook" /\ isEditing
  /\ formData' = [formData EXCEPT ![field] = value]
  /\ errors' = errors \ {field}
  /\ UNCHANGED << user, isEditing, userUpdated >>
  /\ ProfileStep("inputChange", field, value)

UserProfile_handleCancelEditing ==
  /\ impl = "hook" /\ isEditing
  /\ formData' = user
  /\ errors' = {}
  /\ isEditing' = FALSE
  /\ UNCHANGED << user, userUpdated >>
  /\ ProfileStep("cancelEditing", "", <<>>)

\* handleSubmit; the parent, given the user, passes it back as initialUser
\* (adopts) or keeps the one it had.
UserProfile_handleSubmit(adopts) ==
  /\ impl = "hook" /\ isEditing
  /\ errors' = validateForm(formData)
  /\ IF validateForm(formData) = {}
     THEN /\ userUpdated' = Append(userUpdated, formData)
          /\ isEditing' = FALSE
          /\ user' = IF adopts THEN formData ELSE user
     ELSE UNCHANGED << userUpdated, isEditing, user >>
  /\ UNCHANGED formData
  /\ ProfileStep("submit", "", <<>>)

\* -------- Angular --------

\* Validators.required on a text control
required(value) == value # <<>>

\* Validators.minLength(n): an empty value passes, required is what rejects it
minLength(n, value) == value = <<>> \/ Len(value) >= n

\* The dots of a part of an address stand between its labels.
Dotted(part) ==
  /\ part # <<>>
  /\ part[1] # "." /\ part[Len(part)] # "."
  /\ \A k \in 1..(Len(part) - 1) : ~(part[k] = "." /\ part[k + 1] = ".")

\* Validators.email: an empty value passes (required is what rejects it),
\* any other must be labels@labels, the labels of each side dot-separated
email(value) ==
  \/ value = <<>>
  \/ \E i \in DOMAIN value :
     /\ value[i] = "@"
     /\ \A k \in DOMAIN value : value[k] # " " /\ (value[k] = "@" => k = i)
     /\ Dotted(SubSeq(value, 1, i - 1))
     /\ Dotted(SubSeq(value, i + 1, Len(value)))

\* profileForm.valid with the validators of the constructor
profileFormValid(form) ==
  /\ required(form.name) /\ minLength(2, form.name)
  /\ required(form.email) /\ email(form.email)
  /\ form.age >= 18 /\ form.age <= 120
  /\ form.department # ""

UserProfileComponent_enableEditing ==
  /\ impl = "service" /\ ~isEditing
  /\ isEditing' = TRUE
  /\ formData' = user
  /\ UNCHANGED << user, errors, userUpdated >>
  /\ ProfileStep("enableEditing", "", <<>>)

\* the user changes a control of the form
UserProfileComponent_input(field, value) ==
  /\ impl = "service" /\ isEditing
  /\ formData' = [formData EXCEPT ![field] = value]
  /\ UNCHANGED << user, isEditing, errors, userUpdated >>
  /\ ProfileStep("inputChange", field, value)

UserProfileComponent_cancelEditing ==
  /\ impl = "service" /\ isEditing
  /\ isEditing' = FALSE
  /\ formData' = user
  /\ UNCHANGED << user, errors, userUpdated >>
  /\ ProfileStep("cancelEditing", "", <<>>)

UserProfileComponent_onSubmit ==
  /\ impl = "service" /\ isEditing
  /\ IF profileFormValid(formData)
     THEN /\ user' = formData
          /\ isEditing' = FALSE
          /\ userUpdated' = Append(userUpdated, formData)
     ELSE UNCHANGED << user, isEditing, userUpdated >>
  /\ UNCHANGED << formData, errors >>
  /\ ProfileStep("submit", "", <<>>)

\* The profile of a user in view mode, the form holding the user's values.
InitUserProfile ==
  /\ StoreWith({Missing})
  /\ TodoListConstructed
  /\ user = SampleUser
  /\ formData = SampleUser
  /\ isEditing = FALSE
  /\ errors = {}
  /\ userUpdated = <<>>

NextUserProfile ==
  \/ UserProfile_handleEnableEditing
  \/ \E input \in FieldInputs : UserProfile_handleInputChange(input[1], input[2])
  \/ UserProfile_handleCancelEditing
  \/ \E adopts \in BOOLEAN : UserProfile_handleSubmit(adopts)
  \/ UserProfileComponent_enableEditing
  \/ \E input \in FieldInputs : UserProfileComponent_input(input[1], input[2])
  \/ UserProfileComponent_cancelEditing
  \/ UserProfileComponent_onSubmit

SpecUserProfile == InitUserProfile /\ [][NextUserProfile]_vars

\* The rules of the claim: a name of at least 2 characters, an email of the
\* shape local@domain.tld, an age from 18 to 120, a department selected.
EveryFieldValid(form) ==
  /\ Len(trim(form.name)) >= 2
  /\ \E i, j \in DOMAIN form.email :
        /\ 1 < i /\ i + 1 < j /\ j < Len(form.email)
        /\ form.email[i] = "@" /\ form.email[j] = "."
        /\ \A k \in DOMAIN form.email :
             form.email[k] # " " /\ (form.email[k] = "@" => k = i)
  /\ form.age \in 18..120
  /\ form.department # ""

\* C30: in both user-profile components, submitting the edit form emits the
\* user-updated event exactly once and leaves edit mode if and only if every
\* field is valid; with an invalid field no event is emitted, the component
\* stays in edit mode and the displayed user is unchanged.
C30_SubmitIffValid ==
  [][ lastOp'.name = "submit" =>
        IF EveryFieldValid(formData)
        THEN /\ userUpdated' = Append(userUpdated, formData)
             /\ ~isEditing'
        ELSE /\ userUpdated' = userUpdated
             /\ isEditing'
             /\ user' = user ]_vars

====
